---- MODULE Spec2Model ----
(***************************************************************************)
(* hancock: signing and validation of URL query strings.                   *)
(*                                                                         *)
(* The repository holds four revisions of package hancock                  *)
(*   "hancock.go"  src/hancock.go                                          *)
(*   "part_001"    src/unnamed/part_001                                    *)
(*   "part_002"    src/unnamed/part_002 (lines 1-174)                      *)
(*                 and src/unnamed/part_000, which has the same Validate,  *)
(*                 SignQS and Sign and lacks SignedHandler                 *)
(* and the middleware WrapSigned (src/wrappers/wrappers.go, and again in   *)
(* src/unnamed/part_002 lines 176-217).  The variable rev says which       *)
(* revision of the package is linked into the running program.             *)
(*                                                                         *)
(* A Go string is a sequence of one-character strings.  url.Values is a    *)
(* function from keys (strings) to sequences of values (strings).          *)
(*                                                                         *)
(* Specifications:                                                         *)
(*   Spec         requests are signed, changed on their way, validated and *)
(*                served through the middleware, one call after another    *)
(*   SpecCollide  the same, the caller's set holding an envelope key       *)
(*   SpecRetry    a verifier with one expireSeconds validates a request    *)
(*                again and again                                          *)
(*   SpecConc     two Sign calls and a Validate call run concurrently      *)
(*   SpecTs       one call of isValidTS over the whole integer range       *)
(***************************************************************************)
EXTENDS Integers, Sequences, FiniteSets, TLC

(***************************************************************************)
(* Bounds of the model.                                                    *)
(***************************************************************************)
\* width in bits of the scaled-down machine integer standing for int64
IntBits == 6
\* first clock value (time.Now().UTC().Unix() is positive)
ClockStart == 1
\* number of clock ticks explored
MaxTicks == 2
\* largest freshness window explored besides MaxInt (expireSeconds ranges
\* over -3..MaxWindow and MaxInt)
MaxWindow == 1
\* number of Sign calls explored that grow the caller's parameter set
MaxSigns == 1

(***************************************************************************)
(* Characters and strings.                                                 *)
(***************************************************************************)
\* the characters used, in ascending byte order
Chars == << " ", "%", "&", "+", "-",
            "0", "1", "2", "3", "4", "5", "6", "7", "8", "9",
            ":", "=", "?", "A", "B", "D", "E", "F", "G", "O", "P", "S", "T", "_",
            "a", "b", "d", "e", "f", "i", "k", "p", "s", "t", "x", "y", "z" >>

Ord(c) == CHOOSE i \in 1..Len(Chars) : Chars[i] = c

Digits == << "0", "1", "2", "3", "4", "5", "6", "7", "8", "9" >>

IsDigit(c) == \E i \in 1..10 : Digits[i] = c

DigitVal(c) == (CHOOSE i \in 1..10 : Digits[i] = c) - 1

\* bytewise comparison of Go strings (sort.Strings inside Values.Encode)
RECURSIVE StrLess(_, _)
StrLess(a, b) ==
    IF Len(b) = 0 THEN FALSE
    ELSE IF Len(a) = 0 THEN TRUE
    ELSE IF a[1] = b[1] THEN StrLess(Tail(a), Tail(b))
    ELSE Ord(a[1]) < Ord(b[1])

\* strings.IndexByte(s, sep), counted from 1; Len(s) + 1 when sep is absent
Index(s, sep) ==
    IF \E i \in 1..Len(s) : s[i] = sep
    THEN CHOOSE i \in 1..Len(s) : s[i] = sep /\ \A j \in 1..(i - 1) : s[j] # sep
    ELSE Len(s) + 1

\* strings.Cut(s, sep): the part before the first sep, and the part after it
CutBefore(s, sep) == SubSeq(s, 1, Index(s, sep) - 1)

CutAfter(s, sep) == SubSeq(s, Index(s, sep) + 1, Len(s))

\* the concatenation of the strings ss[lo], ..., ss[hi]
RECURSIVE ConcatRange(_, _, _)
ConcatRange(ss, lo, hi) ==
    IF lo > hi THEN << >>
    ELSE IF lo = hi THEN ss[lo]
    ELSE ConcatRange(ss, lo, (lo + hi) \div 2)
         \o ConcatRange(ss, ((lo + hi) \div 2) + 1, hi)

Concat(ss) == ConcatRange(ss, 1, Len(ss))

(***************************************************************************)
(* net/url: QueryEscape, QueryUnescape, Values, Encode, ParseQuery.        *)
(***************************************************************************)
\* the characters QueryEscape rewrites
Reserved == {" ", "%", "&", "+", ":", "=", "?"}

\* url.QueryEscape of one character
EscapeChar(c) ==
    CASE c = " " -> << "+" >>
      [] c = "%" -> << "%", "2", "5" >>
      [] c = "&" -> << "%", "2", "6" >>
      [] c = "+" -> << "%", "2", "B" >>
      [] c = ":" -> << "%", "3", "A" >>
      [] c = "=" -> << "%", "3", "D" >>
      [] c = "?" -> << "%", "3", "F" >>
      [] OTHER   -> << c >>

\* url.QueryEscape
QueryEscape(s) == Concat([i \in 1..Len(s) |-> EscapeChar(s[i])])

IsHex(c) == IsDigit(c) \/ c \in {"A", "B", "D", "E", "F", "a", "b", "d", "e", "f"}

\* the character a %XY triple stands for
UnhexChar(h1, h2) ==
    CHOOSE c \in Reserved : EscapeChar(c) = << "%", h1, h2 >>

\* url.QueryUnescape fails on a % that is not followed by two hex digits
\* (a hex digit is never "%", so every "%" of s starts a triple)
UnescapeOK(s) ==
    \A i \in 1..Len(s) :
        s[i] = "%" => (i + 2 <= Len(s) /\ IsHex(s[i + 1]) /\ IsHex(s[i + 2]))

\* what the character at position i of s contributes to the unescaped string
UnescapeAt(s, i) ==
    IF (i > 1 /\ s[i - 1] = "%") \/ (i > 2 /\ s[i - 2] = "%") THEN << >>
    ELSE IF s[i] = "%" THEN << UnhexChar(s[i + 1], s[i + 2]) >>
    ELSE IF s[i] = "+" THEN << " " >>
    ELSE << s[i] >>

\* url.QueryUnescape of a string that passes UnescapeOK
QueryUnescape(s) == Concat([i \in 1..Len(s) |-> UnescapeAt(s, i)])

\* make(url.Values)
EmptyValues == [k \in {} |-> << >>]

\* url.Values.Get: the first value of the key, "" when there is none
Get(v, k) == IF k \in DOMAIN v /\ Len(v[k]) > 0 THEN v[k][1] ELSE << >>

\* url.Values.Add: append to the key's list
Add(v, k, val) ==
    [x \in (DOMAIN v) \cup {k} |->
        IF x = k
        THEN (IF k \in DOMAIN v THEN Append(v[k], val) ELSE << val >>)
        ELSE v[x]]

\* url.Values.Del
Del(v, k) == [x \in (DOMAIN v) \ {k} |-> v[x]]

\* the least key of a non-empty key set
MinKey(ks) == CHOOSE k \in ks : \A o \in ks : o = k \/ StrLess(k, o)

\* "k=v1&k=v2" for one key, both sides escaped; leading "&" on every pair
RECURSIVE EncodePairs(_, _)
EncodePairs(k, vs) ==
    IF Len(vs) = 0 THEN << >>
    ELSE << "&" >> \o QueryEscape(k) \o << "=" >> \o QueryEscape(vs[1])
         \o EncodePairs(k, Tail(vs))

RECURSIVE EncodeKeys(_, _)
EncodeKeys(v, ks) ==
    IF ks = {} THEN << >>
    ELSE LET k == MinKey(ks)
         IN  EncodePairs(k, v[k]) \o EncodeKeys(v, ks \ {k})

\* url.Values.Encode: keys sorted, values of a key in their order
Encode(v) ==
    LET s == EncodeKeys(v, DOMAIN v)
    IN  IF Len(s) = 0 THEN << >> ELSE Tail(s)

\* the orders in which a range over a map with the keys ks may visit them
RECURSIVE Orders(_)
Orders(ks) ==
    IF ks = {} THEN { << >> }
    ELSE UNION { { << k >> \o o : o \in Orders(ks \ {k}) } : k \in ks }

\* sort.Strings: insertion of one key into a sorted list, and the sort
RECURSIVE InsertSorted(_, _)
InsertSorted(k, sorted) ==
    IF Len(sorted) = 0 THEN << k >>
    ELSE IF StrLess(k, Head(sorted)) THEN << k >> \o sorted
    ELSE << Head(sorted) >> \o InsertSorted(k, Tail(sorted))

RECURSIVE SortStrings(_)
SortStrings(keys) ==
    IF Len(keys) = 0 THEN << >>
    ELSE InsertSorted(Head(keys), SortStrings(Tail(keys)))

RECURSIVE EncodeSorted(_, _)
EncodeSorted(v, keys) ==
    IF Len(keys) = 0 THEN << >>
    ELSE EncodePairs(Head(keys), v[Head(keys)]) \o EncodeSorted(v, Tail(keys))

\* url.Values.Encode step by step: the keys are collected in the order the
\* range over the map visits them, sorted, and written out
EncodeIter(v, order) ==
    LET s == EncodeSorted(v, SortStrings(order))
    IN  IF Len(s) = 0 THEN << >> ELSE Tail(s)

\* url.ParseQuery, as called by URL.Query(): pairs that fail are dropped
RECURSIVE ParseQuery(_)
ParseQuery(query) ==
    IF Len(query) = 0 THEN EmptyValues
    ELSE LET pair == CutBefore(query, "&")
             rest == ParseQuery(CutAfter(query, "&"))
             key  == CutBefore(pair, "=")
             val  == CutAfter(pair, "=")
         IN  IF Len(pair) = 0 THEN rest
             ELSE IF ~UnescapeOK(key) \/ ~UnescapeOK(val) THEN rest
             ELSE LET k == QueryUnescape(key)
                      w == QueryUnescape(val)
                  IN  [x \in (DOMAIN rest) \cup {k} |->
                          IF x = k
                          THEN (IF k \in DOMAIN rest
                                THEN << w >> \o rest[k] ELSE << w >>)
                          ELSE rest[x]]

(***************************************************************************)
(* Machine integers, strconv.ParseInt and fmt.Sprintf("%d").               *)
(***************************************************************************)
RECURSIVE Pow2(_)
Pow2(n) == IF n = 0 THEN 1 ELSE 2 * Pow2(n - 1)

MaxInt == Pow2(IntBits - 1) - 1

MinInt == 0 - Pow2(IntBits - 1)

\* two's-complement wrap of a machine-integer result
Wrap(x) == ((x + Pow2(IntBits - 1)) % Pow2(IntBits)) - Pow2(IntBits - 1)

AllDigits(s) == \A i \in 1..Len(s) : IsDigit(s[i])

\* value of a digit string, saturating just above the machine range
RECURSIVE DigitsValue(_, _)
DigitsValue(s, acc) ==
    IF Len(s) = 0 THEN acc
    ELSE IF acc > MaxInt + 1 THEN acc
    ELSE DigitsValue(Tail(s), 10 * acc + DigitVal(s[1]))

\* the digits of s after an optional sign
Unsigned(s) == IF Len(s) > 0 /\ s[1] \in {"+", "-"} THEN Tail(s) ELSE s

\* strconv.ParseInt(s, 10, 64) returns no error
ParseIntOK(s) ==
    LET u == Unsigned(s)
    IN  /\ Len(u) > 0
        /\ AllDigits(u)
        /\ IF Len(s) > 0 /\ s[1] = "-"
           THEN DigitsValue(u, 0) <= MaxInt + 1
           ELSE DigitsValue(u, 0) <= MaxInt

\* strconv.ParseInt(s, 10, 64), the value
ParseInt(s) ==
    IF Len(s) > 0 /\ s[1] = "-"
    THEN 0 - DigitsValue(Unsigned(s), 0)
    ELSE DigitsValue(Unsigned(s), 0)

RECURSIVE FormatNat(_)
FormatNat(n) ==
    IF n < 10 THEN << Digits[n + 1] >>
    ELSE FormatNat(n \div 10) \o << Digits[(n % 10) + 1] >>

\* fmt.Sprintf("%d", n)
FormatInt(n) == IF n < 0 THEN << "-" >> \o FormatNat(0 - n) ELSE FormatNat(n)

(***************************************************************************)
(* HMAC-SHA256 and base64.URLEncoding.                                     *)
(* The MAC is modelled as collision-free: the encoded MAC of (key, text)   *)
(* spells out key and text in the base64url alphabet, followed by the "="  *)
(* padding that the encoding of a 32-byte digest always ends with.         *)
(***************************************************************************)
SafeChar(c) ==
    CASE c = " " -> << "-", "s" >>
      [] c = "%" -> << "-", "p" >>
      [] c = "&" -> << "-", "a" >>
      [] c = "+" -> << "-", "x" >>
      [] c = ":" -> << "-", "d" >>
      [] c = "=" -> << "-", "e" >>
      [] c = "?" -> << "-", "k" >>
      [] c = "-" -> << "-", "-" >>
      [] c = "_" -> << "-", "b" >>
      [] OTHER   -> << c >>

Safe(s) == Concat([i \in 1..Len(s) |-> SafeChar(s[i])])

\* base64.URLEncoding.EncodeToString(hmac(sha256, pKey, sig))
EncHash(pKey, sig) == Safe(pKey) \o << "_" >> \o Safe(sig) \o << "=" >>

\* faulty variant: the method is left out of the signed string
SigString_noMethod(method, q) == q

\* fmt.Sprintf("%s:%s", method, q)
SigString(method, q) == method \o << ":" >> \o q

(***************************************************************************)
(* The reserved keys.                                                      *)
(***************************************************************************)
K_apikey == << "a", "p", "i", "k", "e", "y" >>

K_ts == << "t", "s" >>

K_data == << "d", "a", "t", "a" >>

EnvelopeKeys == {K_apikey, K_ts, K_data}

(***************************************************************************)
(* isValidTS                                                               *)
(***************************************************************************)
isValidTS(ts, expireSeconds, now) ==
    IF ParseIntOK(ts)
    THEN LET i    == ParseInt(ts)
             dur0 == Wrap(now - i)
             dur  == IF dur0 < 0 THEN Wrap(dur0 * (0 - 1)) ELSE dur0
         IN  [s |-> "expired", ok |-> dur <= expireSeconds]
    ELSE [s |-> "invalid", ok |-> FALSE]

(***************************************************************************)
(* Validate.  The result is the pair (url.Values, *Error) of the code.     *)
(***************************************************************************)
StatusNotAcceptable == 406

StatusUnauthorized == 401

\* return v, nil
Accept(v) ==
    [valuesNil |-> FALSE, values |-> v, errNil |-> TRUE,
     Status |-> 0, s |-> "", a |-> << >>, b |-> << >>]

\* return nil, newError(status, format, a, b)
newError(status, s, a, b) ==
    [valuesNil |-> TRUE, values |-> EmptyValues, errNil |-> FALSE,
     Status |-> status, s |-> s, a |-> a, b |-> b]

\* faulty variant: ts is not removed from the returned parameters
CheckHash_keepTs(method, v, pKey) ==
    LET data    == Get(v, K_data)
        v1      == Del(v, K_data)
        sig     == SigString(method, Encode(v1))
        encHash == EncHash(pKey, sig)
    IN  IF encHash # data
        THEN newError(StatusUnauthorized, "signature mismatch", encHash, data)
        ELSE Accept(Del(v1, K_apikey))

\* the MAC check and the removal of the remaining signature parameters
CheckHash(method, v, pKey) ==
    LET data    == Get(v, K_data)
        v1      == Del(v, K_data)
        sig     == SigString(method, Encode(v1))
        encHash == EncHash(pKey, sig)
    IN  IF encHash # data
        THEN newError(StatusUnauthorized, "signature mismatch", encHash, data)
        ELSE Accept(Del(Del(v1, K_apikey), K_ts))

\* the freshness check of the default branch
CheckTS(v, expireSeconds, now) == isValidTS(Get(v, K_ts), expireSeconds, now)

\* faulty variant: a request that fails the timestamp check is let through
Validate_switch_staleOK(method, rawQuery, pKey, expireSeconds, now) ==
    LET v == ParseQuery(rawQuery)
    IN  IF expireSeconds = 0 - 2
        THEN Accept(Del(Del(Del(v, K_data), K_apikey), K_ts))
        ELSE IF expireSeconds # 0 - 1 /\ ~CheckTS(v, expireSeconds, now).ok
        THEN Accept(Del(Del(Del(v, K_data), K_apikey), K_ts))
        ELSE CheckHash(method, v, pKey)

\* faulty variant: the case -1 is missing, so -1 takes the default branch
Validate_switch_noSkip(method, rawQuery, pKey, expireSeconds, now) ==
    LET v == ParseQuery(rawQuery)
    IN  IF expireSeconds = 0 - 2
        THEN Accept(Del(Del(Del(v, K_data), K_apikey), K_ts))
        ELSE IF ~CheckTS(v, expireSeconds, now).ok
        THEN newError(StatusNotAcceptable,
                      CheckTS(v, expireSeconds, now).s, Get(v, K_ts), << >>)
        ELSE CheckHash(method, v, pKey)

\* Validate of part_000, part_001 and part_002 (switch expireSeconds)
Validate_switch(method, rawQuery, pKey, expireSeconds, now) ==
    LET v == ParseQuery(rawQuery)
    IN  IF expireSeconds = 0 - 2
        THEN Accept(Del(Del(Del(v, K_data), K_apikey), K_ts))
        ELSE IF expireSeconds # 0 - 1 /\ ~CheckTS(v, expireSeconds, now).ok
        THEN newError(StatusNotAcceptable,
                      CheckTS(v, expireSeconds, now).s, Get(v, K_ts), << >>)
        ELSE CheckHash(method, v, pKey)

\* Validate of hancock.go (if expireSeconds > -1)
Validate_hancock(method, rawQuery, pKey, expireSeconds, now) ==
    LET q == ParseQuery(rawQuery)
    IN  IF expireSeconds > 0 - 1 /\ ~CheckTS(q, expireSeconds, now).ok
        THEN newError(StatusNotAcceptable,
                      CheckTS(q, expireSeconds, now).s, Get(q, K_ts), << >>)
        ELSE CheckHash(method, q, pKey)

\* part_000 is covered by "part_002": its Validate, SignQS and Sign are the
\* same statements, and part_002 adds SignedHandler
Revisions == {"hancock.go", "part_001", "part_002"}

\* hancock.Validate of the linked revision
Validate(r, method, rawQuery, pKey, expireSeconds, now) ==
    IF r = "hancock.go"
    THEN Validate_hancock(method, rawQuery, pKey, expireSeconds, now)
    ELSE Validate_switch(method, rawQuery, pKey, expireSeconds, now)

(***************************************************************************)
(* Sign and SignQS.  The caller's url.Values is [isNil, m]; a call returns *)
(* the string it produced, the caller's set as the call leaves it, and the *)
(* string sig it authenticated.                                            *)
(***************************************************************************)
NilValues == [isNil |-> TRUE, m |-> EmptyValues]

\* SignQS of part_000 and part_002: signs the copy v
SignQS_v(method, key, pKey, values, now) ==
    LET v0      == values.m
        v1      == Add(v0, K_apikey, key)
        v2      == Add(v1, K_ts, FormatInt(now))
        enc     == Encode(v2)
        encHash == EncHash(pKey, SigString(method, enc))
    IN  [out |-> Encode(Add(v2, K_data, encHash)), qs |-> values,
         sig |-> SigString(method, enc)]

\* SignQS of part_001: signs the encoding of the caller's qs
SignQS_qs(method, key, pKey, qs, now) ==
    LET v0      == qs.m
        v1      == Add(v0, K_apikey, key)
        values  == Add(v1, K_ts, FormatInt(now))
        q       == Encode(qs.m)
        encHash == EncHash(pKey, SigString(method, q))
    IN  [out |-> Encode(Add(values, K_data, encHash)), qs |-> qs,
         sig |-> SigString(method, q)]

\* Sign of part_000, part_001 and part_002
Sign_qs(r, method, key, pKey, urlStr, qs, now) ==
    LET c == IF r = "part_001"
             THEN SignQS_qs(method, key, pKey, qs, now)
             ELSE SignQS_v(method, key, pKey, qs, now)
    IN  [out |-> urlStr \o << "?" >> \o c.out, qs |-> c.qs, sig |-> c.sig]

\* Sign of hancock.go: adds apikey and ts to the caller's qs itself
Sign_hancock(method, key, pKey, urlStr, qs, now) ==
    LET q0      == qs.m
        q1      == Add(q0, K_apikey, key)
        q2      == Add(q1, K_ts, FormatInt(now))
        q       == Encode(q2)
        encHash == EncHash(pKey, SigString(method, q))
    IN  [out |-> urlStr \o << "?" >> \o q \o << "&", "d", "a", "t", "a", "=" >>
                 \o encHash,
         qs  |-> IF qs.isNil THEN qs ELSE [isNil |-> FALSE, m |-> q2],
         sig |-> SigString(method, q)]

\* hancock.Sign of the linked revision
Sign(r, method, key, pKey, urlStr, qs, now) ==
    IF r = "hancock.go"
    THEN Sign_hancock(method, key, pKey, urlStr, qs, now)
    ELSE Sign_qs(r, method, key, pKey, urlStr, qs, now)

\* the RawQuery of a URL: what follows the first "?"
RawQuery(u) == CutAfter(u, "?")

(***************************************************************************)
(* The middleware: WrapSigned and signedHandler.ServeHTTP.                 *)
(* A run of the middleware is recorded as the list of the calls it made,   *)
(* the status it answered and the query string the inner handler saw.      *)
(***************************************************************************)
StatusOK == 200

\* the public key the key lookups know, and its private key
K1 == << "k" >>

S1 == << "s" >>

\* a wrappers.KeyFunc: (private key, error)
KeyFuncErr(key) ==
    IF key = K1 THEN [pKey |-> S1, err |-> FALSE] ELSE [pKey |-> << >>, err |-> TRUE]

\* a hancock.KeyFunc: (private key, expires); "" for an unknown key
KeyFuncExpires(key, expires) ==
    IF key = K1 THEN [pKey |-> S1, expires |-> expires]
    ELSE [pKey |-> << >>, expires |-> 0]

Served(kind, events, status, inner, seen, w, r) ==
    [kind |-> kind, events |-> events, status |-> status,
     inner |-> inner, seen |-> seen, W |-> w, r |-> r]

NoResult == Accept(EmptyValues)

\* faulty variant: the error of Validate is logged but not returned
WrapSigned_noReturn(r, method, rawQuery, expireSeconds, now) ==
    LET key == Get(ParseQuery(rawQuery), K_apikey)
        kf  == KeyFuncErr(key)
        v   == Validate(r, method, rawQuery, kf.pKey, expireSeconds, now)
    IN  IF kf.err
        THEN Served("WrapSigned", << "keyFunc" >>, StatusUnauthorized,
                    FALSE, << >>, expireSeconds, NoResult)
        ELSE Served("WrapSigned", << "keyFunc", "Validate", "handler" >>,
                    StatusOK, TRUE, Encode(v.values), expireSeconds, v)

\* the handler returned by WrapSigned, applied to one request
WrapSigned(r, method, rawQuery, expireSeconds, now) ==
    LET key == Get(ParseQuery(rawQuery), K_apikey)
        kf  == KeyFuncErr(key)
        v   == Validate(r, method, rawQuery, kf.pKey, expireSeconds, now)
    IN  IF kf.err
        THEN Served("WrapSigned", << "keyFunc" >>, StatusUnauthorized,
                    FALSE, << >>, expireSeconds, NoResult)
        ELSE IF ~v.errNil
        THEN Served("WrapSigned", << "keyFunc", "Validate" >>, v.Status,
                    FALSE, << >>, expireSeconds, v)
        ELSE Served("WrapSigned", << "keyFunc", "Validate", "handler" >>,
                    StatusOK, TRUE, Encode(v.values), expireSeconds, v)

\* signedHandler.ServeHTTP of part_002, applied to one request
ServeHTTP(r, method, rawQuery, expires, now) ==
    LET key == Get(ParseQuery(rawQuery), K_apikey)
        kf  == KeyFuncExpires(key, expires)
        v   == Validate(r, method, rawQuery, kf.pKey, kf.expires, now)
    IN  IF kf.pKey = << >>
        THEN Served("SignedHandler", << "keyFunc" >>, StatusUnauthorized,
                    FALSE, << >>, kf.expires, NoResult)
        ELSE IF ~v.errNil
        THEN Served("SignedHandler", << "keyFunc", "Validate", "Log" >>,
                    v.Status, FALSE, << >>, kf.expires, v)
        ELSE Served("SignedHandler", << "keyFunc", "Validate", "handler" >>,
                    StatusOK, TRUE, rawQuery, kf.expires, v)

(***************************************************************************)
(* The inputs explored.                                                    *)
(***************************************************************************)
GET == << "G", "E", "T" >>

POST == << "P", "O", "S", "T" >>

Methods == {GET, POST}

UrlStr == << "b" >>

Vals(m) == [isNil |-> FALSE, m |-> m]

\* the caller's parameter sets: nil, and several keys (sorted before and
\* after the reserved ones) with several values and escaped characters
ParamSets ==
    { NilValues,
      Vals((<< "z" >> :> << << "x", " ", "y" >>, << "b" >> >>)
           @@ (<< "a" >> :> << << "&", "=", "%" >> >>)) }

NoReserved(m) == (DOMAIN m) \cap EnvelopeKeys = {}

\* the timestamp whose distance to the clock time t is one more than MaxInt
WrapTs(t) == FormatInt(t + MinInt)

\* timestamps an attacker may put in place of the signed one
TsForgeries ==
    { << "x" >>, FormatInt(ClockStart + 1), FormatInt(MinInt),
      WrapTs(ClockStart + 1) }

\* the values an attacker may put in place of the value old of key k
TamperValues(k, old) ==
    (CASE k = K_ts     -> TsForgeries
       [] k = K_data   -> { SubSeq(old, 1, Len(old) - 1) }
       [] k = K_apikey -> { << "u" >> }
       [] OTHER        -> { << "x" >> }) \ {old}

\* a request that a holder of the secret S1 put together without Sign: it
\* carries the right MAC and a timestamp of its choice
Crafted(ts) ==
    LET v == Add(Add(EmptyValues, K_apikey, K1), K_ts, ts)
    IN  Encode(Add(v, K_data, EncHash(S1, SigString(GET, Encode(v)))))

\* requests that Sign did not produce
RawQueries ==
    { Crafted(WrapTs(ClockStart + 1)),
      << >>,
      << "f", "=", "b" >>,
      << "f", "=", "b", "&", "t", "s", "=", "2", "&", "d", "a", "t", "a", "=", "x" >>,
      << "a", "p", "i", "k", "e", "y", "=", "k", "&", "t", "s", "=", "x",
         "&", "f", "=", "%", "z", "z", "&", "z", "=", "1", "&", "z", "=", "+" >> }

Windows == ((0 - 3)..MaxWindow) \cup {MaxInt}

\* the expireSeconds the middleware is set up with
MwWindows == (0 - 2)..0

\* how far the signing machine's clock may run ahead of the verifier's
MaxSkew == MaxWindow

\* the MAC a verifier holding S1 computes for a request
ExpectedMac(method, v) == EncHash(S1, SigString(method, Encode(Del(v, K_data))))

(***************************************************************************)
(* The state.                                                              *)
(***************************************************************************)
VARIABLES
    rev,      \* the revision of package hancock in use
    now,      \* the verifier's clock, time.Now().UTC().Unix()
    qs,       \* the caller's parameter set, as the Sign calls leave it
    qs0,      \* the caller's parameter set before the first Sign
    req,      \* the request on the wire
    res,      \* the last call of Validate and what it returned
    expiredW, \* largest window for which req was rejected as too old
    mw,       \* the last run of the middleware
    hist,     \* the verifier's fixed expireSeconds and what it answered so far
    conc,     \* the Sign and Validate calls running concurrently
    tsc       \* one call of isValidTS

vars == << rev, now, qs, qs0, req, res, expiredW, mw, hist, conc, tsc >>

\* the state of the runs in which the program is used in another way
extra == << hist, conc, tsc >>

\* a request: method and query are what travels; the other fields record
\* where it came from, what the query parses to, the MAC it should carry and
\* the string its signer authenticated
NoReq ==
    [origin |-> "none", method |-> << >>, query |-> << >>,
     values |-> EmptyValues, mac |-> << >>, sig |-> << >>, T |-> 0,
     pKey |-> << >>, params |-> NilValues,
     signMethod |-> << >>, signQuery |-> << >>,
     tamper |-> "none", tamperKey |-> << >>]

NoRes ==
    [done |-> FALSE, W |-> 0, pKey |-> << >>, at |-> 0, wasExpired |-> FALSE,
     r |-> NoResult]

NoMw == [done |-> FALSE, s |-> Served("", << >>, 0, FALSE, << >>, 0, NoResult)]

\* no verifier with a fixed expireSeconds, no concurrent calls, no isValidTS
NoHist == [on |-> FALSE, W |-> 0, failed |-> {}, before |-> {}]

NoConc == [on |-> FALSE]

NoTsc == [on |-> FALSE]

Init ==
    /\ rev \in Revisions
    /\ now = ClockStart
    /\ qs \in ParamSets
    /\ qs0 = qs
    /\ req = NoReq
    /\ res = NoRes
    /\ expiredW = 0 - 1
    /\ mw = NoMw
    /\ hist = NoHist
    /\ conc = NoConc
    /\ tsc = NoTsc

\* the clock moves forward
Tick ==
    /\ now < ClockStart + MaxTicks
    /\ now' = now + 1
    /\ res' = NoRes
    /\ mw' = NoMw
    /\ UNCHANGED << extra, rev, qs, qs0, req, expiredW >>

\* no call of Validate or of the middleware is waiting to be looked at
Idle == ~res.done /\ ~mw.done

\* the result of the last call has been looked at and is dropped
Return ==
    /\ ~Idle
    /\ res' = NoRes
    /\ mw' = NoMw
    /\ UNCHANGED << extra, rev, now, qs, qs0, req, expiredW >>

\* the values the caller's set holds for a key
List(v, k) == IF k \in DOMAIN v THEN v[k] ELSE << >>

\* how many Sign calls have grown the caller's set
Grown == Len(List(qs.m, K_apikey)) - Len(List(qs0.m, K_apikey))

\* the caller signs its parameter set; its clock is skew seconds ahead
SignStep(method, pKey, skew) ==
    /\ Idle
    /\ Grown < MaxSigns
    /\ LET c == Sign(rev, method, K1, pKey, UrlStr, qs, now + skew)
       IN  /\ req' = [origin |-> "sign", method |-> method,
                      query |-> RawQuery(c.out),
                      values |-> ParseQuery(RawQuery(c.out)),
                      mac |-> ExpectedMac(method, ParseQuery(RawQuery(c.out))),
                      sig |-> c.sig,
                      T |-> now + skew,
                      pKey |-> pKey, params |-> qs,
                      signMethod |-> method, signQuery |-> RawQuery(c.out),
                      tamper |-> "none", tamperKey |-> << >>]
           /\ qs' = c.qs
    /\ res' = NoRes
    /\ mw' = NoMw
    /\ expiredW' = 0 - 1
    /\ UNCHANGED << extra, rev, now, qs0 >>

TamperKind(k) ==
    CASE k = K_ts     -> "ts"
      [] k = K_data   -> "data"
      [] k = K_apikey -> "apikey"
      [] OTHER        -> "param"

\* somebody changes one value of the signed request on its way
TamperValue ==
    /\ Idle
    /\ req.origin = "sign"
    /\ req.tamper = "none"
    /\ LET v == ParseQuery(req.query)
       IN  \E k \in DOMAIN v : \E i \in 1..Len(v[k]) :
             \E w \in TamperValues(k, v[k][i]) :
               LET q == Encode([v EXCEPT ![k][i] = w])
               IN  req' = [req EXCEPT !.query = q,
                                      !.values = ParseQuery(q),
                                      !.mac = ExpectedMac(req.method, ParseQuery(q)),
                                      !.tamper = TamperKind(k),
                                      !.tamperKey = k]
    /\ res' = NoRes
    /\ mw' = NoMw
    /\ expiredW' = 0 - 1
    /\ UNCHANGED << extra, rev, now, qs, qs0 >>

\* somebody changes the method of the signed request on its way
TamperMethod ==
    /\ Idle
    /\ req.origin = "sign"
    /\ req.tamper = "none"
    /\ \E m \in Methods \ {req.method} :
         req' = [req EXCEPT !.method = m,
                            !.mac = ExpectedMac(m, req.values),
                            !.tamper = "method"]
    /\ res' = NoRes
    /\ mw' = NoMw
    /\ expiredW' = 0 - 1
    /\ UNCHANGED << extra, rev, now, qs, qs0 >>

\* a request that no signer produced arrives
SendRaw(query) ==
    /\ Idle
    /\ req.origin = "none"
    /\ req' = [NoReq EXCEPT !.origin = "raw", !.method = GET, !.query = query,
                             !.values = ParseQuery(query),
                             !.mac = ExpectedMac(GET, ParseQuery(query))]
    /\ res' = NoRes
    /\ mw' = NoMw
    /\ expiredW' = 0 - 1
    /\ UNCHANGED << extra, rev, now, qs, qs0 >>

\* req was rejected for being older than the window
TooOld(r, w) ==
    /\ w >= 0
    /\ ~r.errNil
    /\ r.Status = StatusNotAcceptable
    /\ r.s = "expired"
    /\ now - ParseInt(r.a) > w

\* the verifier calls Validate on the request
ValidateStep(w) ==
    /\ Idle
    /\ req.origin # "none"
    /\ LET r == Validate(rev, req.method, req.query, S1, w, now)
       IN  /\ res' = [done |-> TRUE, W |-> w, pKey |-> S1, at |-> now,
                      wasExpired |-> (w >= 0 /\ w <= expiredW), r |-> r]
           /\ expiredW' = IF TooOld(r, w) /\ w > expiredW THEN w ELSE expiredW
    /\ mw' = NoMw
    /\ UNCHANGED << extra, rev, now, qs, qs0, req >>

\* the request is served through WrapSigned
ServeWrapSigned(w) ==
    /\ Idle
    /\ req.origin # "none"
    /\ mw' = [done |-> TRUE, s |-> WrapSigned(rev, req.method, req.query, w, now)]
    /\ res' = NoRes
    /\ UNCHANGED << extra, rev, now, qs, qs0, req, expiredW >>

\* the request is served through SignedHandler (part_002 only)
ServeSignedHandler(w) ==
    /\ rev = "part_002"
    /\ Idle
    /\ req.origin # "none"
    /\ mw' = [done |-> TRUE, s |-> ServeHTTP(rev, req.method, req.query, w, now)]
    /\ res' = NoRes
    /\ UNCHANGED << extra, rev, now, qs, qs0, req, expiredW >>

Next ==
    \/ Tick
    \/ Return
    \/ \E sk \in 0..MaxSkew : SignStep(GET, S1, sk)
    \/ TamperValue
    \/ TamperMethod
    \/ \E q \in RawQueries : SendRaw(q)
    \/ \E w \in Windows : ValidateStep(w)
    \/ \E w \in MwWindows : ServeWrapSigned(w)
    \/ \E w \in MwWindows : ServeSignedHandler(w)

Spec == Init /\ [][Next]_vars

(***************************************************************************)
(* Vocabulary of the properties.                                           *)
(***************************************************************************)
\* the parameters the request on the wire carries
ReqValues == req.values

\* the timestamp Validate reads from the request
ReqTS == Get(ReqValues, K_ts)

Abs(n) == IF n < 0 THEN 0 - n ELSE n

\* the request's timestamp is a number within w seconds of the time t
Fresh(w, t) == ParseIntOK(ReqTS) /\ Abs(t - ParseInt(ReqTS)) <= w

\* the data value of the request is the MAC of the rest of the request
MacOK == Get(ReqValues, K_data) = req.mac

\* a parameter set without the three reserved keys
Stripped(v) == [k \in (DOMAIN v) \ EnvelopeKeys |-> v[k]]

\* the request is what Sign produced, unchanged
Untouched == req.origin = "sign" /\ req.tamper = "none"

\* Validate failed with the given status and reason
Failed(status, s) == ~res.r.errNil /\ res.r.Status = status /\ res.r.s = s

(***************************************************************************)
(* C1  Round trip: a request produced by Sign at clock time T from a       *)
(* parameter set without reserved keys, validated with the same method and *)
(* secret and a window W >= 0 while |now - T| <= W, is accepted and        *)
(* Validate returns the parameter set that was signed.                     *)
(***************************************************************************)
C1_RoundTrip ==
    ( /\ res.done
      /\ Untouched
      /\ NoReserved(req.params.m)
      /\ res.W >= 0
      /\ Abs(res.at - req.T) <= res.W )
    => (res.r.errNil /\ ~res.r.valuesNil /\ res.r.values = req.params.m)

(***************************************************************************)
(* C2  Tamper sensitivity, as claimed: after one change to a signed        *)
(* request (a parameter value, apikey, ts, data or the method), Validate   *)
(* with a window W >= 0 or with -1 fails with signature mismatch, 401.     *)
(***************************************************************************)
Tampered == req.origin = "sign" /\ req.tamper # "none"

C2_TamperIs401 ==
    (res.done /\ Tampered /\ (res.W >= 0 \/ res.W = 0 - 1))
    => Failed(StatusUnauthorized, "signature mismatch")

(***************************************************************************)
(* C2 amended: after one such change Validate with W >= 0 or -1 fails.  It *)
(* fails with signature mismatch, 401, when W = -1 or the ts the request   *)
(* then carries is within the window, and with 406 when W >= 0 and that ts *)
(* is not a number or is outside the window at a distance within the       *)
(* integer range; at a larger distance it fails with 406 or with 401.      *)
(***************************************************************************)
\* the distance of the request's timestamp to the time of the call does not
\* exceed the largest integer
InRange == ParseIntOK(ReqTS) => Abs(res.at - ParseInt(ReqTS)) <= MaxInt

C2_TamperFails ==
    (res.done /\ Tampered /\ (res.W >= 0 \/ res.W = 0 - 1))
    => /\ ~res.r.errNil
       /\ res.r.valuesNil
       /\ (res.W >= 0 /\ ~Fresh(res.W, res.at) /\ InRange)
            => res.r.Status = StatusNotAcceptable
       /\ (res.W < 0 \/ Fresh(res.W, res.at))
            => Failed(StatusUnauthorized, "signature mismatch")
       /\ res.r.Status = StatusNotAcceptable
          \/ Failed(StatusUnauthorized, "signature mismatch")

\* a changed method or business parameter is caught by the MAC check
C2_Witness ==
    /\ res.done
    /\ req.origin = "sign"
    /\ req.tamper \in {"method", "param"}
    /\ res.W >= 0
    /\ Failed(StatusUnauthorized, "signature mismatch")

(***************************************************************************)
(* C3  Replay bound: with a window W >= 0, Validate never accepts a        *)
(* request whose timestamp ts has now > ts + W, and a request that was     *)
(* rejected as expired for being too old is rejected by every later        *)
(* Validate with that window.                                              *)
(***************************************************************************)
C3_ReplayBound ==
    (res.done /\ res.W >= 0)
    => /\ (ParseIntOK(ReqTS) /\ res.at > ParseInt(ReqTS) + res.W) => ~res.r.errNil
       /\ res.wasExpired => ~res.r.errNil

\* a signed request is refused again after it had been refused as too old
C3_Witness ==
    /\ res.done
    /\ Untouched
    /\ res.W >= 0
    /\ res.wasExpired
    /\ res.at > req.T + res.W
    /\ Failed(StatusNotAcceptable, "expired")

(***************************************************************************)
(* C4  Freshness boundary: with W >= 0 and a correct MAC, a request whose  *)
(* ts is exactly W seconds before or after now is accepted, and one whose  *)
(* ts is W+1 seconds before or after now is rejected as "expired".         *)
(***************************************************************************)
C4_Boundary ==
    (res.done /\ res.W >= 0 /\ MacOK /\ ParseIntOK(ReqTS))
    => /\ Abs(res.at - ParseInt(ReqTS)) = res.W => res.r.errNil
       /\ Abs(res.at - ParseInt(ReqTS)) = res.W + 1
            => Failed(StatusNotAcceptable, "expired")

\* a correctly signed request from W+1 seconds in the future is refused
C4_Witness ==
    /\ res.done
    /\ res.W >= 0
    /\ MacOK
    /\ ParseIntOK(ReqTS)
    /\ ParseInt(ReqTS) - res.at = res.W + 1
    /\ Failed(StatusNotAcceptable, "expired")

(***************************************************************************)
(* C5  Failure classification and order: with W >= 0 a missing or          *)
(* non-numeric ts gives 406 "invalid" and an out-of-window ts gives 406    *)
(* "expired", whatever the MAC; 401 is returned only when the freshness    *)
(* check passed or was skipped and the MAC differs from the data value.    *)
(***************************************************************************)
C5_Classification ==
    res.done
    => /\ (res.W >= 0 /\ ~ParseIntOK(ReqTS))
            => (Failed(StatusNotAcceptable, "invalid") /\ res.r.a = ReqTS)
       /\ (res.W >= 0 /\ ParseIntOK(ReqTS) /\ ~Fresh(res.W, res.at))
            => (Failed(StatusNotAcceptable, "expired") /\ res.r.a = ReqTS)
       /\ (~res.r.errNil /\ res.r.Status = StatusUnauthorized)
            => /\ res.W < 0 \/ Fresh(res.W, res.at)
               /\ ~MacOK
               /\ res.r.s = "signature mismatch"
       /\ res.r.errNil \/ res.r.Status \in {StatusNotAcceptable, StatusUnauthorized}

\* a stale request with a wrong MAC is reported as expired, not as mismatch
C5_Witness ==
    /\ res.done
    /\ res.W >= 0
    /\ ~MacOK
    /\ ParseIntOK(ReqTS)
    /\ ~Fresh(res.W, res.at)
    /\ Failed(StatusNotAcceptable, "expired")

(***************************************************************************)
(* C6  Skip-freshness sentinel: with expireSeconds = -1 Validate accepts   *)
(* exactly the requests whose data value is the MAC of the rest, whatever  *)
(* their ts, and every rejection is the 401 signature mismatch.            *)
(***************************************************************************)
C6_SkipFreshness ==
    (res.done /\ res.W = 0 - 1)
    => /\ res.r.errNil <=> MacOK
       /\ ~res.r.errNil => Failed(StatusUnauthorized, "signature mismatch")

\* a signed request older than every window is accepted with -1
C6_Witness ==
    /\ res.done
    /\ res.W = 0 - 1
    /\ Untouched
    /\ res.at - req.T > MaxWindow
    /\ res.r.errNil

(***************************************************************************)
(* C7  Bypass sentinel: with expireSeconds = -2 Validate accepts every     *)
(* request and returns its parameters without apikey, ts and data.         *)
(***************************************************************************)
C7_Bypass ==
    (res.done /\ res.W = 0 - 2)
    => (res.r.errNil /\ ~res.r.valuesNil /\ res.r.values = Stripped(ReqValues))

(***************************************************************************)
(* C8  Result shape: Validate returns either (parameters, no error) or     *)
(* (nil, error); on success the parameters are the request's query         *)
(* parameters without the keys apikey, ts and data, all else unchanged.    *)
(***************************************************************************)
C8_ResultShape ==
    res.done
    => /\ res.r.valuesNil <=> ~res.r.errNil
       /\ res.r.errNil
            => /\ (DOMAIN res.r.values) \cap EnvelopeKeys = {}
               /\ res.r.values = Stripped(ReqValues)

\* an accepted request with several business parameters
C8_Witness ==
    /\ res.done
    /\ res.r.errNil
    /\ Cardinality(DOMAIN res.r.values) >= 2
    /\ Cardinality(DOMAIN ReqValues) >= 5

(***************************************************************************)
(* C9  Signing does not change the caller's parameter set, so a request    *)
(* signed from it carries exactly one apikey and one ts value.             *)
(***************************************************************************)
C9_CallerSetUnchanged ==
    /\ qs = qs0
    /\ (Untouched /\ NoReserved(qs0.m))
         => /\ Len(List(ReqValues, K_apikey)) = 1
            /\ Len(List(ReqValues, K_ts)) = 1

(***************************************************************************)
(* C10  Middleware gating: the inner handler runs only after the key       *)
(* lookup succeeded and Validate returned no error; a failed lookup        *)
(* answers 401 without calling Validate or the handler; a failed Validate  *)
(* answers the error's Status (406 or 401) without calling the handler.    *)
(***************************************************************************)
\* the key lookup of the middleware knows the request's apikey
LookupOK == Get(ReqValues, K_apikey) = K1

\* what Validate returns for the request under the middleware's settings
Verdict == Validate(rev, req.method, req.query, S1, mw.s.W, now)

C10_Gating ==
    mw.done
    => /\ mw.s.inner
            => /\ LookupOK
               /\ Verdict.errNil
               /\ mw.s.events = << "keyFunc", "Validate", "handler" >>
       /\ ~LookupOK
            => /\ mw.s.status = StatusUnauthorized
               /\ mw.s.events = << "keyFunc" >>
               /\ ~mw.s.inner
       /\ (LookupOK /\ ~Verdict.errNil)
            => /\ mw.s.status = Verdict.Status
               /\ mw.s.status \in {StatusNotAcceptable, StatusUnauthorized}
               /\ ~mw.s.inner
               /\ \A i \in 1..Len(mw.s.events) : mw.s.events[i] # "handler"

\* SignedHandler answers 406 for a stale request and leaves the handler alone
C10_Witness ==
    /\ mw.done
    /\ mw.s.kind = "SignedHandler"
    /\ LookupOK
    /\ mw.s.status = StatusNotAcceptable
    /\ ~mw.s.inner


(***************************************************************************)
(* C11  Middleware cleaning: whenever WrapSigned or SignedHandler invokes  *)
(* the inner handler, the query string the handler sees is the encoding of *)
(* the parameter set Validate returned, and holds no apikey, ts or data.   *)
(***************************************************************************)
C11_Cleaning ==
    (mw.done /\ mw.s.inner)
    => /\ mw.s.seen = Encode(Verdict.values)
       /\ (DOMAIN ParseQuery(mw.s.seen)) \cap EnvelopeKeys = {}


(***************************************************************************)
(* C12  Canonical-string determinism: the authenticated string is          *)
(* method ":" encoding, the same whatever the order in which the keys were *)
(* inserted into the parameter set and whatever the order in which the map *)
(* is visited; its entries are sorted by key ascending with the values of  *)
(* a key in their order; and the string the signer authenticated is the    *)
(* string the verifier builds from the signed request.                     *)
(***************************************************************************)
\* the parameter set built by inserting the keys of v in the given order
RECURSIVE AddAll(_, _, _)
AddAll(m, k, vals) ==
    IF Len(vals) = 0 THEN m ELSE AddAll(Add(m, k, Head(vals)), k, Tail(vals))

RECURSIVE Rebuild(_, _)
Rebuild(v, order) ==
    IF Len(order) = 0 THEN EmptyValues
    ELSE AddAll(Rebuild(v, SubSeq(order, 1, Len(order) - 1)),
                order[Len(order)], v[order[Len(order)]])

\* the keys of the pairs of an encoded query string, in their order
RECURSIVE PairKeys(_)
PairKeys(query) ==
    IF Len(query) = 0 THEN << >>
    ELSE << QueryUnescape(CutBefore(CutBefore(query, "&"), "=")) >>
         \o PairKeys(CutAfter(query, "&"))

Ascending(keys) ==
    \A i \in 1..(Len(keys) - 1) : keys[i] = keys[i + 1] \/ StrLess(keys[i], keys[i + 1])

\* the parameters the verifier authenticates, and the string it builds
Authenticated == Del(ReqValues, K_data)

VerifierString == SigString(req.method, Encode(Authenticated))

C12_Canonical ==
    /\ req.origin # "none"
         => /\ \A ins \in Orders(DOMAIN Authenticated) :
                 \A o \in Orders(DOMAIN Authenticated) :
                   SigString(req.method, EncodeIter(Rebuild(Authenticated, ins), o))
                     = VerifierString
            /\ Ascending(PairKeys(Encode(Authenticated)))
            /\ ParseQuery(Encode(Authenticated)) = Authenticated
    /\ Untouched => req.sig = VerifierString


(***************************************************************************)
(* Concurrent calls.  Two Sign calls that were handed the same parameter   *)
(* set qs, and one Validate call, run statement by statement in any        *)
(* interleaving.  A call of url.Values.Add on the caller's map is a load   *)
(* of the key's list followed by a store, as mapaccess and mapassign are.  *)
(* conc.spare holds the keys of qs whose list has room for one more        *)
(* element (cap > len): append then writes into the caller's backing       *)
(* array, whose free element is conc.slot[k], and the appended element of  *)
(* the call's own list (the keys in refs) is read from that slot.          *)
(* conc.wr and conc.rd record which call wrote and read which shared       *)
(* location: the caller's map, a slot, or the secret key.                  *)
(***************************************************************************)
SignCalls == {1, 2}

ValidateCall == 3

CallMethod(i) == IF i = 1 THEN GET ELSE POST

CallKey(i) == IF i = 1 THEN K1 ELSE << "u" >>

\* the parameter sets the concurrent calls are handed
ConcParamSets ==
    { NilValues,
      Vals(<< "f" >> :> << << "b" >> >>),
      Vals(K_apikey :> << << "b" >> >>) }

\* the request the concurrent Validate call is given, and its expireSeconds
ConcQuery == RawQuery(Sign(rev, GET, K1, S1, UrlStr, NilValues, ClockStart).out)

ConcWindow == MaxWindow

\* the shared locations besides the slots, which are named by their key
MapLoc == << "map" >>

KeyLoc == << "pKey" >>

NewCall ==
    [pc |-> "start", alias |-> FALSE, v |-> EmptyValues, refs |-> {},
     tmp |-> << >>, T |-> 0, encHash |-> << >>, out |-> << >>]

ConcInit ==
    /\ rev \in Revisions
    /\ now = ClockStart
    /\ qs \in ConcParamSets
    /\ qs0 = qs
    /\ req = NoReq
    /\ res = NoRes
    /\ expiredW = 0 - 1
    /\ mw = NoMw
    /\ hist = NoHist
    /\ tsc = NoTsc
    /\ \E sp \in SUBSET ((DOMAIN qs.m) \cap EnvelopeKeys) :
         conc = [on |-> TRUE, spare |-> sp,
                 slot |-> [k \in EnvelopeKeys |-> << >>],
                 p |-> [i \in SignCalls |-> NewCall],
                 wr |-> {}, rd |-> {}, fatal |-> FALSE,
                 vdone |-> FALSE, vat |-> 0, vres |-> NoResult]

Running == conc.on /\ ~conc.fatal

\* the map a Sign call of hancock.go works on
HMap(c) == IF c.alias THEN qs.m ELSE c.v

\* the key and the value of the Add a call is at
AddKeyAt(pc) ==
    CASE pc \in {"addKey", "addKey2"} -> K_apikey
      [] pc \in {"addTs", "addTs2"}   -> K_ts
      [] OTHER                        -> K_data

AddValAt(i, c) ==
    CASE c.pc \in {"addKey", "addKey2"} -> CallKey(i)
      [] c.pc \in {"addTs", "addTs2"}   -> FormatInt(c.T)
      [] OTHER                          -> c.encHash

\* hancock.go Sign, lines 81-83: a nil qs is replaced by a map of the call
Sign_hancock_nil(i) ==
    /\ Running
    /\ rev = "hancock.go"
    /\ conc.p[i].pc = "start"
    /\ conc' = [conc EXCEPT !.p[i].pc = "addKey", !.p[i].alias = ~qs.isNil]
    /\ UNCHANGED << rev, now, qs, qs0, req, res, expiredW, mw, hist, tsc >>

\* hancock.go Sign, lines 85 and 86: qs.Add reads the list of the key
Sign_hancock_load(i) ==
    /\ Running
    /\ rev = "hancock.go"
    /\ conc.p[i].pc \in {"addKey", "addTs"}
    /\ LET c == conc.p[i]
           k == AddKeyAt(c.pc)
       IN  conc' = [conc EXCEPT
                      !.p[i].tmp = List(HMap(c), k),
                      !.p[i].T = IF c.pc = "addTs" THEN now ELSE c.T,
                      !.p[i].pc = IF c.pc = "addKey" THEN "addKey2" ELSE "addTs2",
                      !.rd = IF c.alias THEN @ \cup {<< i, MapLoc >>} ELSE @]
    /\ UNCHANGED << rev, now, qs, qs0, req, res, expiredW, mw, hist, tsc >>

\* hancock.go Sign, lines 85 and 86: qs.Add stores the grown list
Sign_hancock_store(i) ==
    /\ Running
    /\ rev = "hancock.go"
    /\ conc.p[i].pc \in {"addKey2", "addTs2"}
    /\ LET c == conc.p[i]
           k == AddKeyAt(c.pc)
           l == Append(c.tmp, AddValAt(i, c))
           m == [x \in (DOMAIN HMap(c)) \cup {k} |-> IF x = k THEN l ELSE HMap(c)[x]]
           n == IF c.pc = "addKey2" THEN "addTs" ELSE "encode"
       IN  IF c.alias
           THEN /\ qs' = [isNil |-> FALSE, m |-> m]
                /\ conc' = [conc EXCEPT !.p[i].pc = n,
                                        !.wr = @ \cup {<< i, MapLoc >>}]
           ELSE /\ qs' = qs
                /\ conc' = [conc EXCEPT !.p[i].pc = n, !.p[i].v = m]
    /\ UNCHANGED << rev, now, qs0, req, res, expiredW, mw, hist, tsc >>

\* hancock.go Sign, lines 89-94: encode qs, authenticate, return
Sign_hancock_encode(i) ==
    /\ Running
    /\ rev = "hancock.go"
    /\ conc.p[i].pc = "encode"
    /\ LET c       == conc.p[i]
           q       == Encode(HMap(c))
           encHash == EncHash(S1, SigString(CallMethod(i), q))
       IN  conc' = [conc EXCEPT
                      !.p[i].pc = "done",
                      !.p[i].encHash = encHash,
                      !.p[i].out = UrlStr \o << "?" >> \o q
                                   \o << "&", "d", "a", "t", "a", "=" >> \o encHash,
                      !.rd = (IF c.alias THEN @ \cup {<< i, MapLoc >>} ELSE @)
                             \cup {<< i, KeyLoc >>}]
    /\ UNCHANGED << rev, now, qs, qs0, req, res, expiredW, mw, hist, tsc >>


\* the runtime finds a map access of one call inside the Add of another and
\* stops the program ("fatal error: concurrent map writes")
Throw ==
    /\ Running
    /\ rev = "hancock.go"
    /\ \E i \in SignCalls : \E j \in SignCalls \ {i} :
         /\ conc.p[i].alias
         /\ conc.p[i].pc \in {"addKey2", "addTs2"}
         /\ conc.p[j].pc \in {"addKey", "addKey2", "addTs", "addTs2", "encode"}
    /\ conc' = [conc EXCEPT !.fatal = TRUE]
    /\ UNCHANGED << rev, now, qs, qs0, req, res, expiredW, mw, hist, tsc >>

\* the lists of a call's map v, the appended elements read from the slots
Resolve(c) ==
    [k \in DOMAIN c.v |->
        IF k \in c.refs
        THEN [c.v[k] EXCEPT ![Len(c.v[k])] = conc.slot[k]]
        ELSE c.v[k]]

\* the slots a call reads when it encodes its map
SlotReads(i, c) == { << i, k >> : k \in c.refs }

\* SignQS, lines 92-97: the caller's lists are put into the call's own map
SignQS_copy(i) ==
    /\ Running
    /\ rev # "hancock.go"
    /\ conc.p[i].pc = "start"
    /\ conc' = [conc EXCEPT
                  !.p[i].pc = "addKey",
                  !.p[i].v = qs.m,
                  !.rd = IF qs.isNil THEN @ ELSE @ \cup {<< i, MapLoc >>}]
    /\ UNCHANGED << rev, now, qs, qs0, req, res, expiredW, mw, hist, tsc >>

\* SignQS, lines 99, 100 and 109: Add appends to the list of the call's map
SignQS_add(i) ==
    /\ Running
    /\ rev # "hancock.go"
    /\ conc.p[i].pc \in {"addKey", "addTs", "addData"}
    /\ LET c0  == conc.p[i]
           c   == [c0 EXCEPT !.T = IF c0.pc = "addTs" THEN now ELSE c0.T]
           k   == AddKeyAt(c.pc)
           val == AddValAt(i, c)
           n   == CASE c.pc = "addKey" -> "addTs"
                    [] c.pc = "addTs"  -> "sign"
                    [] OTHER           -> "return"
       IN  IF k \in conc.spare
           THEN conc' = [conc EXCEPT
                           !.p[i] = [c EXCEPT !.pc = n,
                                              !.v = Add(c.v, k, val),
                                              !.refs = @ \cup {k}],
                           !.slot[k] = val,
                           !.wr = @ \cup {<< i, k >>}]
           ELSE conc' = [conc EXCEPT
                           !.p[i] = [c EXCEPT !.pc = n, !.v = Add(c.v, k, val)]]
    /\ UNCHANGED << rev, now, qs, qs0, req, res, expiredW, mw, hist, tsc >>

\* SignQS, lines 103-107: the encoding is authenticated
SignQS_sign(i) ==
    /\ Running
    /\ rev # "hancock.go"
    /\ conc.p[i].pc = "sign"
    /\ LET c   == conc.p[i]
           enc == IF rev = "part_001" THEN Encode(qs.m) ELSE Encode(Resolve(c))
           acc == IF rev = "part_001"
                  THEN (IF qs.isNil THEN {} ELSE {<< i, MapLoc >>})
                  ELSE SlotReads(i, c)
       IN  conc' = [conc EXCEPT
                      !.p[i].pc = "addData",
                      !.p[i].encHash = EncHash(S1, SigString(CallMethod(i), enc)),
                      !.rd = @ \cup acc \cup {<< i, KeyLoc >>}]
    /\ UNCHANGED << rev, now, qs, qs0, req, res, expiredW, mw, hist, tsc >>

\* SignQS line 110 and Sign line 115: the call's map is encoded and returned
SignQS_return(i) ==
    /\ Running
    /\ rev # "hancock.go"
    /\ conc.p[i].pc = "return"
    /\ LET c == conc.p[i]
       IN  conc' = [conc EXCEPT
                      !.p[i].pc = "done",
                      !.p[i].out = UrlStr \o << "?" >> \o Encode(Resolve(c)),
                      !.rd = @ \cup SlotReads(i, c)]
    /\ UNCHANGED << rev, now, qs, qs0, req, res, expiredW, mw, hist, tsc >>

\* the Validate call: it works on the request it was given and reads pKey
Validate_conc ==
    /\ Running
    /\ ~conc.vdone
    /\ conc' = [conc EXCEPT
                  !.vdone = TRUE,
                  !.vat = now,
                  !.vres = Validate(rev, GET, ConcQuery, S1, ConcWindow, now),
                  !.rd = @ \cup {<< ValidateCall, KeyLoc >>}]
    /\ UNCHANGED << rev, now, qs, qs0, req, res, expiredW, mw, hist, tsc >>

\* the clock moves while a call has not read it yet
Tick_conc ==
    /\ Running
    /\ \E i \in SignCalls : conc.p[i].T = 0
    /\ Tick

NextConc ==
    \/ Tick_conc
    \/ \E i \in SignCalls : Sign_hancock_nil(i)
    \/ \E i \in SignCalls : Sign_hancock_load(i)
    \/ \E i \in SignCalls : Sign_hancock_store(i)
    \/ \E i \in SignCalls : Sign_hancock_encode(i)
    \/ Throw
    \/ \E i \in SignCalls : SignQS_copy(i)
    \/ \E i \in SignCalls : SignQS_add(i)
    \/ \E i \in SignCalls : SignQS_sign(i)
    \/ \E i \in SignCalls : SignQS_return(i)
    \/ Validate_conc

SpecConc == ConcInit /\ [][NextConc]_vars

(***************************************************************************)
(* C13  Concurrent independence: in every interleaving each Sign call      *)
(* returns what it returns when run alone on the caller's set at the clock *)
(* time it read, the Validate call answers what it answers alone, no       *)
(* shared location written by one call is read or written by another, and  *)
(* the program is not stopped.                                             *)
(***************************************************************************)
\* two calls touched one location and one of them wrote it
Race ==
    \E w \in conc.wr : \E a \in conc.wr \cup conc.rd :
        a[1] # w[1] /\ a[2] = w[2]

\* what the call returns when it runs alone
Alone(i) ==
    Sign(rev, CallMethod(i), CallKey(i), S1, UrlStr, qs0, conc.p[i].T).out

C13_Independent ==
    conc.on
    => /\ ~conc.fatal
       /\ ~Race
       /\ \A i \in SignCalls : conc.p[i].pc = "done" => conc.p[i].out = Alone(i)
       /\ conc.vdone
            => conc.vres = Validate(rev, GET, ConcQuery, S1, ConcWindow, conc.vat)


(***************************************************************************)
(* isValidTS on its own: one call with any timestamp string and any        *)
(* window of the integer range, at any time of the clock.                  *)
(***************************************************************************)
\* every integer of the machine range written out, a number just outside on
\* each side, and strings that are not numbers
TsStrings ==
    { FormatInt(n) : n \in (MinInt - 1)..(MaxInt + 1) } \cup { << >>, << "x" >> }

TsWindows == 0..MaxInt

TsInit ==
    /\ rev \in Revisions
    /\ now = ClockStart
    /\ qs = NilValues
    /\ qs0 = qs
    /\ req = NoReq
    /\ res = NoRes
    /\ expiredW = 0 - 1
    /\ mw = NoMw
    /\ hist = NoHist
    /\ conc = NoConc
    /\ tsc = [on |-> TRUE, done |-> FALSE, ts |-> << >>, W |-> 0, at |-> 0,
              r |-> [s |-> "", ok |-> FALSE]]

\* the clock moves before the call
Tick_ts ==
    /\ tsc.on
    /\ ~tsc.done
    /\ Tick

\* isValidTS(ts, expireSeconds) is called
Call_isValidTS(ts, expireSeconds) ==
    /\ tsc.on
    /\ ~tsc.done
    /\ tsc' = [on |-> TRUE, done |-> TRUE, ts |-> ts, W |-> expireSeconds,
               at |-> now, r |-> isValidTS(ts, expireSeconds, now)]
    /\ UNCHANGED << rev, now, qs, qs0, req, res, expiredW, mw, hist, conc >>

NextTs ==
    \/ Tick_ts
    \/ \E ts \in TsStrings : \E w \in TsWindows : Call_isValidTS(ts, w)

SpecTs == TsInit /\ [][NextTs]_vars

(***************************************************************************)
(* C14  Freshness arithmetic over the whole integer range: for every ts    *)
(* that parses as a machine integer and every window W >= 0, isValidTS     *)
(* answers ok exactly when the distance |now - ts|, taken in the unbounded *)
(* integers, is at most W; a ts that does not parse is "invalid".          *)
(***************************************************************************)
C14_FullRange ==
    (tsc.on /\ tsc.done)
    => IF ParseIntOK(tsc.ts)
       THEN /\ tsc.r.s = "expired"
            /\ tsc.r.ok <=> (Abs(tsc.at - ParseInt(tsc.ts)) <= tsc.W)
       ELSE tsc.r = [s |-> "invalid", ok |-> FALSE]


(***************************************************************************)
(* A verifier that is set up with one expireSeconds and validates the      *)
(* request it received again and again as the clock moves.  hist.failed    *)
(* holds the kinds of failure Validate has answered for the request so     *)
(* far, hist.before those it had answered before the latest call.          *)
(***************************************************************************)
RetryInit ==
    /\ rev \in Revisions
    /\ now = ClockStart
    /\ qs = NilValues
    /\ qs0 = qs
    /\ req = NoReq
    /\ res = NoRes
    /\ expiredW = 0 - 1
    /\ mw = NoMw
    /\ \E w \in Windows : hist = [on |-> TRUE, W |-> w, failed |-> {}, before |-> {}]
    /\ conc = NoConc
    /\ tsc = NoTsc

\* the kind of failure of a result of Validate
FailureKind(r) ==
    IF r.errNil THEN {}
    ELSE IF r.Status = StatusUnauthorized THEN {"mismatch"}
    ELSE {r.s}

\* the one request of the run is signed
Sign_retry(skew) ==
    /\ hist.on
    /\ req.origin = "none"
    /\ SignStep(GET, S1, skew)

\* the request is changed on its way, before it is validated
Tamper_retry ==
    /\ hist.on
    /\ hist.failed = {}
    /\ (TamperValue \/ TamperMethod)

\* the verifier calls Validate on the request, once more
Retry ==
    /\ hist.on
    /\ Idle
    /\ req.origin # "none"
    /\ LET r == Validate(rev, req.method, req.query, S1, hist.W, now)
       IN  /\ res' = [done |-> TRUE, W |-> hist.W, pKey |-> S1, at |-> now,
                      wasExpired |-> FALSE, r |-> r]
           /\ hist' = [hist EXCEPT !.failed = @ \cup FailureKind(r),
                                   !.before = hist.failed]
    /\ UNCHANGED << rev, now, qs, qs0, req, expiredW, mw, conc, tsc >>

NextRetry ==
    \/ Tick
    \/ Return
    \/ \E sk \in 0..MaxSkew : Sign_retry(sk)
    \/ Tamper_retry
    \/ \E q \in RawQueries : SendRaw(q)
    \/ Retry

SpecRetry == RetryInit /\ [][NextRetry]_vars

(***************************************************************************)
(* C15  Idempotent failure, as claimed: once Validate has failed for a     *)
(* request with some method, secret and expireSeconds, every later         *)
(* Validate of the same request with the same inputs fails too.            *)
(***************************************************************************)
C15_FailureIsFinal ==
    (hist.on /\ res.done /\ hist.before # {}) => ~res.r.errNil

(***************************************************************************)
(* C15 amended: once Validate has failed with signature mismatch (401) or  *)
(* with "invalid" (406) for a request, every later Validate of the same    *)
(* request with the same inputs fails too; a failure with "expired" is not *)
(* final.                                                                  *)
(***************************************************************************)
C15_MismatchIsFinal ==
    (hist.on /\ res.done /\ hist.before \cap {"mismatch", "invalid"} # {})
    => ~res.r.errNil

\* a request refused for its MAC is refused again at a later time
C15_Witness ==
    /\ hist.on
    /\ res.done
    /\ "mismatch" \in hist.before
    /\ req.origin = "sign"
    /\ res.at > req.T
    /\ ~res.r.errNil


(***************************************************************************)
(* C16  Sentinels are not reached by accident: Validate accepts a request  *)
(* whose data value is not the MAC only with expireSeconds = -2, and a     *)
(* request whose ts is not within the window only with -1 or -2; with 0    *)
(* only a ts equal to now is within the window, and with a value below -2  *)
(* no ts is.                                                               *)
(***************************************************************************)
C16_Sentinels ==
    (res.done /\ res.r.errNil)
    => /\ ~MacOK => res.W = 0 - 2
       /\ ~Fresh(res.W, res.at) => res.W \in {0 - 1, 0 - 2}


(***************************************************************************)
(* The caller's parameter set already holds a key of the envelope.         *)
(***************************************************************************)
ReservedParamSets ==
    { Vals(K_apikey :> << << "b" >> >>),
      Vals(K_ts :> << << "7" >> >>),
      Vals((K_data :> << << "b" >> >>) @@ (<< "f" >> :> << << "b" >> >>)) }

CollideInit ==
    /\ rev \in Revisions
    /\ now = ClockStart
    /\ qs \in ReservedParamSets
    /\ qs0 = qs
    /\ req = NoReq
    /\ res = NoRes
    /\ expiredW = 0 - 1
    /\ mw = NoMw
    /\ hist = NoHist
    /\ conc = NoConc
    /\ tsc = NoTsc

SpecCollide == CollideInit /\ [][Next]_vars

(***************************************************************************)
(* C17  Envelope keys do not collide with the caller's parameters: a       *)
(* request signed from any parameter set, also one that holds apikey, ts   *)
(* or data, carries exactly one value for each of apikey, ts and data; it  *)
(* is accepted by Validate within the window; and the parameter set        *)
(* Validate returns is the caller's, nothing lost or altered.              *)
(***************************************************************************)
C17_NoCollision ==
    Untouched
    => /\ \A k \in EnvelopeKeys : Len(List(ReqValues, k)) = 1
       /\ (res.done /\ res.W >= 0 /\ Abs(res.at - req.T) <= res.W)
            => /\ res.r.errNil
               /\ res.r.values = qs0.m

====
